---- MODULE Spec2Model ----
(***************************************************************************)
(* Company-records service: HTTP handlers (handlers package), the          *)
(* validation/orchestration layer (service package), the PostgreSQL        *)
(* repository (repository package) and the companies table (migration).    *)
(*                                                                         *)
(* Representation of Go values:                                            *)
(*   - a nil pointer is <<>>, a pointer to v is <<v>>;                      *)
(*   - an error is the sequence of the text pieces of err.Error(); the nil  *)
(*     error is <<>>; fmt.Errorf("p: %w", err) is <<"p: ">> \o err;         *)
(*   - a free-text field (company_name, company_address, sec_code, ...) is  *)
(*     a sequence of runs <<kind, n>>: n characters of kind "sp" (ASCII     *)
(*     white space), "ascii" (one-byte non-space) or "mb" (two-byte         *)
(*     non-space rune);                                                    *)
(*   - a query-string value is the sequence of its characters.             *)
(***************************************************************************)
EXTENDS Integers, Sequences, FiniteSets, TLC

VARIABLES store, nextId, clock, last, inflight

vars == <<store, nextId, clock, last, inflight>>

\* ------------------------------------------------------------------ bounds
\* INSERTs attempted with a fresh identifier, ticks of the database clock,
\* runs per company_name in the validation inputs, and requests served
\* concurrently.
MaxCreates == 3
MaxClock == 2
MaxRuns == 2
MaxRequests == 3

\* ------------------------------------------------------- program constants
StatusOK == 200
StatusCreated == 201
StatusNoContent == 204
StatusBadRequest == 400
StatusNotFound == 404
StatusInternalServerError == 500

DefaultLimit == 20
DefaultOffset == 0
MinLimit == 1
MaxLimit == 100
MaxNameLen == 255
MinDirectors == 1
MaxDirectors == 100
MinShareholders == 1
MaxShareholders == 1000
NameColLen == 255
SecCodeColLen == 50

ValidJurisdictions == <<"UK", "Singapore", "Caymens">>

\* ------------------------------------------------------------------ helpers
Range(s) == {s[i] : i \in DOMAIN s}

Min(a, b) == IF a < b THEN a ELSE b

Max(a, b) == IF a > b THEN a ELSE b

\* --------------------------------------------------------------- free text
RECURSIVE ByteLen(_)
\* Go len(s): the number of bytes of s.
ByteLen(s) ==
    IF s = <<>> THEN 0
    ELSE (IF s[1][1] = "mb" THEN 2 * s[1][2] ELSE s[1][2]) + ByteLen(Tail(s))

RECURSIVE CharLen(_)
\* The number of characters of s, which is what VARCHAR(n) counts.
CharLen(s) == IF s = <<>> THEN 0 ELSE s[1][2] + CharLen(Tail(s))

RECURSIVE TrimLeft(_)
TrimLeft(s) ==
    IF s = <<>> THEN <<>>
    ELSE IF s[1][1] = "sp" THEN TrimLeft(Tail(s)) ELSE s

RECURSIVE TrimRight(_)
TrimRight(s) ==
    IF s = <<>> THEN <<>>
    ELSE IF s[Len(s)][1] = "sp" THEN TrimRight(SubSeq(s, 1, Len(s) - 1)) ELSE s

\* strings.TrimSpace: leading and trailing white space removed.
TrimSpace(s) == TrimRight(TrimLeft(s))

\* ------------------------------------------------------------ strconv.Atoi
DigitVal ==
    [c \in {"0", "1", "2", "3", "4", "5", "6", "7", "8", "9"} |->
        CASE c = "0" -> 0 [] c = "1" -> 1 [] c = "2" -> 2 [] c = "3" -> 3
          [] c = "4" -> 4 [] c = "5" -> 5 [] c = "6" -> 6 [] c = "7" -> 7
          [] c = "8" -> 8 [] c = "9" -> 9]

RECURSIVE DecVal(_)
DecVal(ds) ==
    IF ds = <<>> THEN 0
    ELSE 10 * DecVal(SubSeq(ds, 1, Len(ds) - 1)) + DigitVal[ds[Len(ds)]]

\* strconv.Atoi on a non-empty string: an optional sign, then one or more
\* decimal digits; anything else is a syntax error.
Atoi(s) ==
    LET signed == s[1] \in {"+", "-"}
        ds == IF signed THEN Tail(s) ELSE s
    IN  IF ds = <<>> \/ \E i \in DOMAIN ds : ds[i] \notin DOMAIN DigitVal
        THEN [ok |-> FALSE, val |-> 0]
        ELSE [ok |-> TRUE, val |-> IF s[1] = "-" THEN 0 - DecVal(ds) ELSE DecVal(ds)]

\* ------------------------------------------------------------------ errors
NoErr == <<>>

ErrNoRows == <<"sql: no rows in result set">>

\* An infrastructure failure of the database connection.
ErrConn == <<"pq: connection refused">>

\* A constraint violation reported by PostgreSQL on INSERT.
ErrConstraint == <<"pq: value violates a constraint of relation companies">>

Errorf(prefix, err) == <<prefix>> \o err

\* The text of err occurs in msg.
Contains(msg, err) ==
    \E i \in 1..(Len(msg) - Len(err) + 1) : SubSeq(msg, i, i + Len(err) - 1) = err

\* --------------------------------------------------------------- Go slices
\* var companies []api.Company is the nil slice until the first append.
NilSlice == [isNil |-> TRUE, elems |-> <<>>]

AppendAll(sl, xs) == IF xs = <<>> THEN sl ELSE [isNil |-> FALSE, elems |-> sl.elems \o xs]

\* ------------------------------------------------- companies table (schema)
RECURSIVE Take(_, _)
\* The first n characters of s.
Take(s, n) ==
    IF s = <<>> \/ n <= 0 THEN <<>>
    ELSE IF s[1][2] <= n THEN <<s[1]>> \o Take(Tail(s), n - s[1][2])
    ELSE <<<<s[1][1], n>>>>

\* VARCHAR(n): a longer value is an error unless the excess is all spaces,
\* which PostgreSQL truncates.
FitsVarchar(s, n) == CharLen(TrimRight(s)) <= n

\* The column constraints of CREATE TABLE companies.
SchemaOK(req) ==
    /\ req.jurisdiction \in Range(ValidJurisdictions)
    /\ FitsVarchar(req.company_name, NameColLen)
    /\ req.number_of_directors # <<>> => req.number_of_directors[1] >= 0
    /\ req.number_of_shareholders # <<>> => req.number_of_shareholders[1] >= 0
    /\ req.sec_code # <<>> => FitsVarchar(req.sec_code[1], SecCodeColLen)

\* The row INSERT ... RETURNING yields: id from uuid_generate_v4(), both
\* timestamps from CURRENT_TIMESTAMP.
NewRow(req, id, now) ==
    [id |-> id,
     jurisdiction |-> req.jurisdiction,
     company_name |-> Take(req.company_name, NameColLen),
     company_address |-> req.company_address,
     nature_of_business |-> req.nature_of_business,
     number_of_directors |-> req.number_of_directors,
     number_of_shareholders |-> req.number_of_shareholders,
     sec_code |-> IF req.sec_code = <<>> THEN <<>>
                  ELSE <<Take(req.sec_code[1], SecCodeColLen)>>,
     date_created |-> now,
     date_updated |-> now]

\* --------------------------------------------------------------- repository
\* Mutant: the WHERE clause is left out.
Matching_FilterIgnored(st, jurisdiction) == st

\* WHERE jurisdiction = $1, when a filter is given.
Matching(st, jurisdiction) ==
    IF jurisdiction = <<>> THEN st
    ELSE {c \in st : c.jurisdiction = jurisdiction[1]}

\* The row orders ORDER BY date_created DESC allows: a latest row first, then
\* an order of the others; rows with equal date_created come in an order the
\* query does not fix.
RECURSIVE DescOrders(_)
DescOrders(S) ==
    IF S = {} THEN {<<>>}
    ELSE UNION {{<<c>> \o p : p \in DescOrders(S \ {c})} :
                c \in {c \in S : \A d \in S : c.date_created >= d.date_created}}

\* Mutant: OFFSET left out of the page query.
LimitOffset_NoOffset(rows, limit, offset) ==
    SubSeq(rows, 1, Min(Len(rows), limit))

\* LIMIT limit OFFSET offset applied to the ordered rows.
LimitOffset(rows, limit, offset) ==
    SubSeq(rows, offset + 1, Min(Len(rows), offset + limit))

\* PostgresCompanyRepository.GetAll.  fault = k makes the k-th query fail
\* (0: none); order is the row order the page query happens to produce.
GetAll(st, limit, offset, jurisdiction, fault, order) ==
    LET total == Cardinality(Matching(st, jurisdiction))
        rows == LimitOffset(order, limit, offset)
    IN  IF fault = 1
        THEN [companies |-> NilSlice, total |-> 0, err |-> ErrConn,
              queries |-> <<"count">>]
        ELSE IF fault = 2
        THEN [companies |-> NilSlice, total |-> 0, err |-> ErrConn,
              queries |-> <<"count", "select">>]
        ELSE [companies |-> AppendAll(NilSlice, rows), total |-> total,
              err |-> NoErr, queries |-> <<"count", "select">>]

\* Mutant: sql.ErrNoRows is returned like any other error of the query.
GetByID_NoRowsIsError(st, id, fault) ==
    IF fault = 1
    THEN [company |-> <<>>, err |-> ErrConn, queries |-> <<"select">>]
    ELSE IF \E c \in st : c.id = id
    THEN [company |-> <<CHOOSE c \in st : c.id = id>>, err |-> NoErr,
          queries |-> <<"select">>]
    ELSE [company |-> <<>>, err |-> ErrNoRows, queries |-> <<"select">>]

\* PostgresCompanyRepository.GetByID: (nil, nil) when no row matches.
GetByID(st, id, fault) ==
    IF fault = 1
    THEN [company |-> <<>>, err |-> ErrConn, queries |-> <<"select">>]
    ELSE IF \E c \in st : c.id = id
    THEN [company |-> <<CHOOSE c \in st : c.id = id>>, err |-> NoErr,
          queries |-> <<"select">>]
    ELSE [company |-> <<>>, err |-> NoErr, queries |-> <<"select">>]

\* PostgresCompanyRepository.Create: one INSERT ... RETURNING.
Create(st, req, id, now, fault) ==
    IF fault = 1
    THEN [company |-> <<>>, err |-> ErrConn, store |-> st, queries |-> <<"insert">>]
    ELSE IF ~SchemaOK(req)
    THEN [company |-> <<>>, err |-> ErrConstraint, store |-> st,
          queries |-> <<"insert">>]
    ELSE [company |-> <<NewRow(req, id, now)>>, err |-> NoErr,
          store |-> st \cup {NewRow(req, id, now)}, queries |-> <<"insert">>]

\* Mutant: the number of rows affected is not looked at.
Delete_RowsAffectedIgnored(st, id, fault) ==
    IF fault = 1
    THEN [err |-> ErrConn, store |-> st, queries |-> <<"delete">>]
    ELSE [err |-> NoErr, store |-> {c \in st : c.id # id},
          queries |-> <<"delete">>]

\* Mutant: the DELETE has no WHERE clause.
Delete_NoWhere(st, id, fault) ==
    IF fault = 1
    THEN [err |-> ErrConn, store |-> st, queries |-> <<"delete">>]
    ELSE IF st = {}
    THEN [err |-> ErrNoRows, store |-> st, queries |-> <<"delete">>]
    ELSE [err |-> NoErr, store |-> {}, queries |-> <<"delete">>]

\* PostgresCompanyRepository.Delete: sql.ErrNoRows when no row was affected.
Delete(st, id, fault) ==
    LET rowsAffected == Cardinality({c \in st : c.id = id})
    IN  IF fault = 1
        THEN [err |-> ErrConn, store |-> st, queries |-> <<"delete">>]
        ELSE IF rowsAffected = 0
        THEN [err |-> ErrNoRows, store |-> st, queries |-> <<"delete">>]
        ELSE [err |-> NoErr, store |-> {c \in st : c.id # id},
              queries |-> <<"delete">>]

\* ------------------------------------------------------------------ service
\* Mutant: the length of the trimmed name is checked.
validateCreateRequest_TrimmedLength(req) ==
    IF TrimSpace(req.company_name) = <<>>
    THEN <<"company name is required">>
    ELSE IF ByteLen(TrimSpace(req.company_name)) > MaxNameLen
    THEN <<"company name cannot exceed 255 characters">>
    ELSE IF TrimSpace(req.company_address) = <<>>
    THEN <<"company address is required">>
    ELSE IF ~(\E i \in DOMAIN ValidJurisdictions : req.jurisdiction = ValidJurisdictions[i])
    THEN <<"invalid jurisdiction: must be one of [UK Singapore Caymens]">>
    ELSE IF /\ req.number_of_directors # <<>>
            /\ \/ req.number_of_directors[1] < MinDirectors
               \/ req.number_of_directors[1] > MaxDirectors
    THEN <<"number of directors must be between 1 and 100">>
    ELSE IF /\ req.number_of_shareholders # <<>>
            /\ \/ req.number_of_shareholders[1] < MinShareholders
               \/ req.number_of_shareholders[1] > MaxShareholders
    THEN <<"number of shareholders must be between 1 and 1000">>
    ELSE NoErr

\* Mutant: the jurisdiction is checked before the address.
validateCreateRequest_JurisdictionFirst(req) ==
    IF TrimSpace(req.company_name) = <<>>
    THEN <<"company name is required">>
    ELSE IF ByteLen(req.company_name) > MaxNameLen
    THEN <<"company name cannot exceed 255 characters">>
    ELSE IF ~(\E i \in DOMAIN ValidJurisdictions : req.jurisdiction = ValidJurisdictions[i])
    THEN <<"invalid jurisdiction: must be one of [UK Singapore Caymens]">>
    ELSE IF TrimSpace(req.company_address) = <<>>
    THEN <<"company address is required">>
    ELSE IF /\ req.number_of_directors # <<>>
            /\ \/ req.number_of_directors[1] < MinDirectors
               \/ req.number_of_directors[1] > MaxDirectors
    THEN <<"number of directors must be between 1 and 100">>
    ELSE IF /\ req.number_of_shareholders # <<>>
            /\ \/ req.number_of_shareholders[1] < MinShareholders
               \/ req.number_of_shareholders[1] > MaxShareholders
    THEN <<"number of shareholders must be between 1 and 1000">>
    ELSE NoErr

\* Mutant: the lower bound of number_of_directors is the schema's, zero.
validateCreateRequest_DirectorsFromZero(req) ==
    IF TrimSpace(req.company_name) = <<>>
    THEN <<"company name is required">>
    ELSE IF ByteLen(req.company_name) > MaxNameLen
    THEN <<"company name cannot exceed 255 characters">>
    ELSE IF TrimSpace(req.company_address) = <<>>
    THEN <<"company address is required">>
    ELSE IF ~(\E i \in DOMAIN ValidJurisdictions : req.jurisdiction = ValidJurisdictions[i])
    THEN <<"invalid jurisdiction: must be one of [UK Singapore Caymens]">>
    ELSE IF /\ req.number_of_directors # <<>>
            /\ \/ req.number_of_directors[1] < 0
               \/ req.number_of_directors[1] > MaxDirectors
    THEN <<"number of directors must be between 1 and 100">>
    ELSE IF /\ req.number_of_shareholders # <<>>
            /\ \/ req.number_of_shareholders[1] < MinShareholders
               \/ req.number_of_shareholders[1] > MaxShareholders
    THEN <<"number of shareholders must be between 1 and 1000">>
    ELSE NoErr

\* companyService.validateCreateRequest: the first failing rule's error.
validateCreateRequest(req) ==
    IF TrimSpace(req.company_name) = <<>>
    THEN <<"company name is required">>
    ELSE IF ByteLen(req.company_name) > MaxNameLen
    THEN <<"company name cannot exceed 255 characters">>
    ELSE IF TrimSpace(req.company_address) = <<>>
    THEN <<"company address is required">>
    ELSE IF ~(\E i \in DOMAIN ValidJurisdictions : req.jurisdiction = ValidJurisdictions[i])
    THEN <<"invalid jurisdiction: must be one of [UK Singapore Caymens]">>
    ELSE IF /\ req.number_of_directors # <<>>
            /\ \/ req.number_of_directors[1] < MinDirectors
               \/ req.number_of_directors[1] > MaxDirectors
    THEN <<"number of directors must be between 1 and 100">>
    ELSE IF /\ req.number_of_shareholders # <<>>
            /\ \/ req.number_of_shareholders[1] < MinShareholders
               \/ req.number_of_shareholders[1] > MaxShareholders
    THEN <<"number of shareholders must be between 1 and 1000">>
    ELSE NoErr

\* Mutant: the upper bound of limit is not checked.
ListCompanies_NoUpperBound(st, params, fault, order) ==
    LET limit == IF params.Limit # <<>> THEN params.Limit[1] ELSE DefaultLimit
        offset == IF params.Offset # <<>> THEN params.Offset[1] ELSE DefaultOffset
        r == GetAll(st, limit, offset, params.Jurisdiction, fault, order)
    IN  IF params.Limit # <<>> /\ params.Limit[1] < MinLimit
        THEN [resp |-> <<>>, err |-> <<"limit must be between 1 and 100">>,
              calls |-> <<>>, queries |-> <<>>,
              repoErr |-> NoErr]
        ELSE IF params.Offset # <<>> /\ params.Offset[1] < 0
        THEN [resp |-> <<>>, err |-> <<"offset must be non-negative">>,
              calls |-> <<>>, queries |-> <<>>,
              repoErr |-> NoErr]
        ELSE IF r.err # NoErr
        THEN [resp |-> <<>>, err |-> Errorf("failed to retrieve companies: ", r.err),
              calls |-> <<<<"GetAll", limit, offset, params.Jurisdiction>>>>, queries |-> r.queries,
              repoErr |-> r.err]
        ELSE [resp |-> <<[Companies |-> r.companies, Total |-> r.total,
                          Limit |-> limit, Offset |-> offset]>>,
              err |-> NoErr, calls |-> <<<<"GetAll", limit, offset, params.Jurisdiction>>>>, queries |-> r.queries,
              repoErr |-> r.err]

\* Mutant: the supplied offset is checked but not taken over.
ListCompanies_OffsetDropped(st, params, fault, order) ==
    LET limit == IF params.Limit # <<>> THEN params.Limit[1] ELSE DefaultLimit
        offset == DefaultOffset
        r == GetAll(st, limit, offset, params.Jurisdiction, fault, order)
    IN  IF params.Limit # <<>> /\ (params.Limit[1] < MinLimit \/ params.Limit[1] > MaxLimit)
        THEN [resp |-> <<>>, err |-> <<"limit must be between 1 and 100">>,
              calls |-> <<>>, queries |-> <<>>,
              repoErr |-> NoErr]
        ELSE IF params.Offset # <<>> /\ params.Offset[1] < 0
        THEN [resp |-> <<>>, err |-> <<"offset must be non-negative">>,
              calls |-> <<>>, queries |-> <<>>,
              repoErr |-> NoErr]
        ELSE IF r.err # NoErr
        THEN [resp |-> <<>>, err |-> Errorf("failed to retrieve companies: ", r.err),
              calls |-> <<<<"GetAll", limit, offset, params.Jurisdiction>>>>, queries |-> r.queries,
              repoErr |-> r.err]
        ELSE [resp |-> <<[Companies |-> r.companies, Total |-> r.total,
                          Limit |-> limit, Offset |-> offset]>>,
              err |-> NoErr, calls |-> <<<<"GetAll", limit, offset, params.Jurisdiction>>>>, queries |-> r.queries,
              repoErr |-> r.err]

\* companyService.ListCompanies.  calls: the repository methods invoked, with
\* their arguments; queries: the SQL statements they ran; repoErr: the error
\* the repository returned.
ListCompanies(st, params, fault, order) ==
    LET limit == IF params.Limit # <<>> THEN params.Limit[1] ELSE DefaultLimit
        offset == IF params.Offset # <<>> THEN params.Offset[1] ELSE DefaultOffset
        r == GetAll(st, limit, offset, params.Jurisdiction, fault, order)
    IN  IF params.Limit # <<>> /\ (params.Limit[1] < MinLimit \/ params.Limit[1] > MaxLimit)
        THEN [resp |-> <<>>, err |-> <<"limit must be between 1 and 100">>,
              calls |-> <<>>, queries |-> <<>>,
              repoErr |-> NoErr]
        ELSE IF params.Offset # <<>> /\ params.Offset[1] < 0
        THEN [resp |-> <<>>, err |-> <<"offset must be non-negative">>,
              calls |-> <<>>, queries |-> <<>>,
              repoErr |-> NoErr]
        ELSE IF r.err # NoErr
        THEN [resp |-> <<>>, err |-> Errorf("failed to retrieve companies: ", r.err),
              calls |-> <<<<"GetAll", limit, offset, params.Jurisdiction>>>>, queries |-> r.queries,
              repoErr |-> r.err]
        ELSE [resp |-> <<[Companies |-> r.companies, Total |-> r.total,
                          Limit |-> limit, Offset |-> offset]>>,
              err |-> NoErr, calls |-> <<<<"GetAll", limit, offset, params.Jurisdiction>>>>, queries |-> r.queries,
              repoErr |-> r.err]

\* companyService.GetCompanyByID.
ServiceGetCompanyByID(st, id, fault) ==
    LET r == GetByID(st, id, fault)
    IN  IF r.err # NoErr
        THEN [company |-> <<>>, err |-> Errorf("failed to retrieve company: ", r.err),
              calls |-> <<<<"GetByID", id>>>>, queries |-> r.queries,
              repoErr |-> r.err]
        ELSE IF r.company = <<>>
        THEN [company |-> <<>>, err |-> <<"company not found">>,
              calls |-> <<<<"GetByID", id>>>>, queries |-> r.queries,
              repoErr |-> r.err]
        ELSE [company |-> r.company, err |-> NoErr,
              calls |-> <<<<"GetByID", id>>>>, queries |-> r.queries,
              repoErr |-> r.err]

\* Mutant: the INSERT runs before the request is validated.
ServiceCreateCompany_InsertFirst(st, req, id, now, fault) ==
    LET verr == validateCreateRequest(req)
        r == Create(st, req, id, now, fault)
    IN  IF r.err # NoErr
        THEN [company |-> <<>>, err |-> Errorf("failed to create company: ", r.err),
              store |-> r.store, calls |-> <<<<"Create", req>>>>,
              queries |-> r.queries, repoErr |-> r.err]
        ELSE IF verr # NoErr
        THEN [company |-> <<>>, err |-> verr, store |-> r.store,
              calls |-> <<<<"Create", req>>>>, queries |-> r.queries,
              repoErr |-> r.err]
        ELSE [company |-> r.company, err |-> NoErr, store |-> r.store,
              calls |-> <<<<"Create", req>>>>, queries |-> r.queries,
              repoErr |-> r.err]

\* companyService.CreateCompany.
ServiceCreateCompany(st, req, id, now, fault) ==
    LET verr == validateCreateRequest(req)
        r == Create(st, req, id, now, fault)
    IN  IF verr # NoErr
        THEN [company |-> <<>>, err |-> verr, store |-> st,
              calls |-> <<>>, queries |-> <<>>,
              repoErr |-> NoErr]
        ELSE IF r.err # NoErr
        THEN [company |-> <<>>, err |-> Errorf("failed to create company: ", r.err),
              store |-> r.store, calls |-> <<<<"Create", req>>>>, queries |-> r.queries,
              repoErr |-> r.err]
        ELSE [company |-> r.company, err |-> NoErr, store |-> r.store,
              calls |-> <<<<"Create", req>>>>, queries |-> r.queries,
              repoErr |-> r.err]

\* Mutant: the zero-rows signal compared with another text.
ServiceDeleteCompany_WrongText(st, id, fault) ==
    LET r == Delete(st, id, fault)
    IN  IF r.err # NoErr
        THEN IF r.err = <<"no rows in result set">>
             THEN [err |-> <<"company not found">>, store |-> r.store,
                   calls |-> <<<<"Delete", id>>>>, queries |-> r.queries,
                   repoErr |-> r.err]
             ELSE [err |-> Errorf("failed to delete company: ", r.err),
                   store |-> r.store, calls |-> <<<<"Delete", id>>>>,
                   queries |-> r.queries, repoErr |-> r.err]
        ELSE [err |-> NoErr, store |-> r.store,
              calls |-> <<<<"Delete", id>>>>, queries |-> r.queries,
              repoErr |-> r.err]

\* companyService.DeleteCompany.
ServiceDeleteCompany(st, id, fault) ==
    LET r == Delete(st, id, fault)
    IN  IF r.err # NoErr
        THEN IF r.err = <<"sql: no rows in result set">>
             THEN [err |-> <<"company not found">>, store |-> r.store,
                   calls |-> <<<<"Delete", id>>>>, queries |-> r.queries,
              repoErr |-> r.err]
             ELSE [err |-> Errorf("failed to delete company: ", r.err),
                   store |-> r.store, calls |-> <<<<"Delete", id>>>>, queries |-> r.queries,
              repoErr |-> r.err]
        ELSE [err |-> NoErr, store |-> r.store,
              calls |-> <<<<"Delete", id>>>>, queries |-> r.queries,
              repoErr |-> r.err]

\* ----------------------------------------------------------------- handlers
\* Mutant: the error of uuid.Parse is dropped and the zero UUID used.
ParseUUID_ErrorIgnored(idStr) ==
    [ok |-> TRUE, id |-> IF Len(idStr) = 2 THEN idStr[2] ELSE 0]

\* uuid.Parse on the path segment: <<"uuid", n>> is the text of UUID n,
\* anything else does not parse.
ParseUUID(idStr) ==
    IF Len(idStr) = 2 /\ idStr[1] = "uuid"
    THEN [ok |-> TRUE, id |-> idStr[2]]
    ELSE [ok |-> FALSE, id |-> 0]

\* What a handler leaves behind: the response (status, msg of the error
\* envelope, body) and what was invoked to produce it (svcErr: the error the
\* service returned).
Exchange(op, req, status, msg, body, sv) ==
    [op |-> op, req |-> req, status |-> status, msg |-> msg, body |-> body,
     svcErr |-> sv.err, calls |-> sv.calls, queries |-> sv.queries,
     repoErr |-> sv.repoErr]

\* The handler answered without calling the service.
NotInvoked == [err |-> NoErr, calls |-> <<>>, queries |-> <<>>, repoErr |-> NoErr]

\* CompanyHandlers.GetCompanies.
GetCompanies(st, limitStr, offsetStr, jurisdictionStr, fault, order) ==
    LET req == [limit |-> limitStr, offset |-> offsetStr,
                jurisdiction |-> jurisdictionStr]
        params == [Limit |-> IF limitStr # <<>> THEN <<Atoi(limitStr).val>> ELSE <<>>,
                   Offset |-> IF offsetStr # <<>> THEN <<Atoi(offsetStr).val>> ELSE <<>>,
                   Jurisdiction |-> IF jurisdictionStr # "" THEN <<jurisdictionStr>>
                                    ELSE <<>>]
        sv == ListCompanies(st, params, fault, order)
    IN  IF limitStr # <<>> /\ ~Atoi(limitStr).ok
        THEN Exchange("list", req, StatusBadRequest, <<"Invalid limit parameter">>,
                      <<>>, NotInvoked)
        ELSE IF offsetStr # <<>> /\ ~Atoi(offsetStr).ok
        THEN Exchange("list", req, StatusBadRequest, <<"Invalid offset parameter">>,
                      <<>>, NotInvoked)
        ELSE IF sv.err # NoErr
        THEN Exchange("list", req, StatusInternalServerError,
                      <<"Failed to retrieve companies">>, <<>>, sv)
        ELSE Exchange("list", req, StatusOK, <<>>, sv.resp, sv)

\* CompanyHandlers.GetCompanyByID.
GetCompanyByID(st, idStr, fault) ==
    LET req == [id |-> idStr]
        sv == ServiceGetCompanyByID(st, ParseUUID(idStr).id, fault)
    IN  IF ~ParseUUID(idStr).ok
        THEN Exchange("get", req, StatusBadRequest, <<"Invalid company ID format">>,
                      <<>>, NotInvoked)
        ELSE IF sv.err # NoErr
        THEN IF sv.err = <<"company not found">>
             THEN Exchange("get", req, StatusNotFound, <<"Company not found">>, <<>>, sv)
             ELSE Exchange("get", req, StatusInternalServerError,
                           <<"Failed to retrieve company">>, <<>>, sv)
        ELSE Exchange("get", req, StatusOK, <<>>, sv.company, sv)

\* CompanyHandlers.CreateCompany.  body is <<>> when the JSON does not
\* decode, else <<req>>.  The result also carries the store after the call.
CreateCompany(st, body, id, now, fault) ==
    LET sv == ServiceCreateCompany(st, body[1], id, now, fault)
    IN  IF body = <<>>
        THEN [ex |-> Exchange("create", body, StatusBadRequest,
                              <<"Invalid request body">>, <<>>, NotInvoked),
              store |-> st]
        ELSE IF sv.err # NoErr
        THEN [ex |-> Exchange("create", body, StatusBadRequest, sv.err, <<>>, sv),
              store |-> sv.store]
        ELSE [ex |-> Exchange("create", body, StatusCreated, <<>>, sv.company, sv),
              store |-> sv.store]

\* CompanyHandlers.DeleteCompany.
DeleteCompany(st, idStr, fault) ==
    LET req == [id |-> idStr]
        sv == ServiceDeleteCompany(st, ParseUUID(idStr).id, fault)
    IN  IF ~ParseUUID(idStr).ok
        THEN [ex |-> Exchange("delete", req, StatusBadRequest,
                              <<"Invalid company ID format">>, <<>>, NotInvoked),
              store |-> st]
        ELSE IF sv.err # NoErr
        THEN IF sv.err = <<"company not found">>
             THEN [ex |-> Exchange("delete", req, StatusNotFound,
                                   <<"Company not found">>, <<>>, sv),
                   store |-> sv.store]
             ELSE [ex |-> Exchange("delete", req, StatusInternalServerError,
                                   <<"Failed to delete company">>, <<>>, sv),
                   store |-> sv.store]
        ELSE [ex |-> Exchange("delete", req, StatusNoContent, <<>>, <<>>, sv),
              store |-> sv.store]

\* ------------------------------------------------------------------- inputs
Txt(kind, n) == <<<<kind, n>>>>

BaseReq ==
    [jurisdiction |-> "UK", company_name |-> Txt("ascii", 8),
     company_address |-> Txt("ascii", 9), nature_of_business |-> <<>>,
     number_of_directors |-> <<>>, number_of_shareholders |-> <<>>,
     sec_code |-> <<>>]

\* POST bodies: undecodable JSON, two valid requests, one per kind of
\* rejection (validation, schema).
CreateBodies ==
    {<<>>,
     <<BaseReq>>,
     <<[BaseReq EXCEPT !.jurisdiction = "Singapore", !.number_of_directors = <<2>>]>>,
     <<[BaseReq EXCEPT !.jurisdiction = "France"]>>,
     <<[BaseReq EXCEPT !.sec_code = <<Txt("ascii", 51)>>]>>}

\* GET /companies query strings <<limit, offset, jurisdiction>>: every
\* combination of the usable values, and the malformed and out-of-range ones.
ListQueries ==
    ({<<>>, <<"1">>, <<"2">>} \X {<<>>, <<"0">>, <<"1">>, <<"2">>}
        \X {"", "UK", "France"})
    \cup {<<<<"1", "0", "0">>, <<>>, "">>, <<<<"+", "2">>, <<>>, "Singapore">>,
          <<<<"x">>, <<>>, "">>, <<<<>>, <<"x">>, "">>, <<<<"-">>, <<"1">>, "UK">>,
          <<<<"0">>, <<>>, "">>, <<<<"1", "0", "1">>, <<>>, "">>,
          <<<<"2", "0", "0">>, <<>>, "">>, <<<<"-", "1">>, <<"0">>, "UK">>,
          <<<<>>, <<"-", "1">>, "">>, <<<<"2">>, <<"-", "2">>, "UK">>,
          <<<<"0">>, <<"-", "1">>, "">>, <<<<"x">>, <<"-", "1">>, "">>}

IdStrs == {<<"uuid", n>> : n \in 1..MaxCreates} \cup {<<"not-a-uuid">>}

\* The jurisdiction filter the handler derives from the query string.
FilterOf(jurisdictionStr) == IF jurisdictionStr # "" THEN <<jurisdictionStr>> ELSE <<>>

\* ------------------------------------------------------------ state machine
\* store: the rows of the companies table; nextId: the identifiers generated
\* so far, plus one; clock: CURRENT_TIMESTAMP; last: the exchange whose
\* response is on its way to the client (NoExchange when none is).
NoExchange ==
    [op |-> "none", req |-> <<>>, status |-> 0, msg |-> <<>>, body |-> <<>>,
     svcErr |-> NoErr, calls |-> <<>>, queries |-> <<>>, repoErr |-> NoErr]

\* ------------------------------------------------------ requests in flight
\* net/http serves each request on a goroutine of its own; a slot holds one
\* such request from its arrival to its response.
Slots == 1..MaxRequests

\* A slot no request has arrived on.
Idle == [op |-> "none", req |-> <<>>, pc |-> "idle", total |-> 0, ex |-> NoExchange]

Init ==
    /\ store = {}
    /\ nextId = 1
    /\ clock = 0
    /\ last = NoExchange
    /\ inflight = [s \in Slots |-> Idle]

\* GET /api/v1/companies with a query string of qs.
List(qs, faults) ==
    \E q \in qs, fault \in faults :
        \E order \in DescOrders(Matching(store, FilterOf(q[3]))) :
            /\ last' = GetCompanies(store, q[1], q[2], q[3], fault, order)
            /\ UNCHANGED <<store, nextId, clock, inflight>>

\* Mutant: every row gets the same identifier.
uuid_generate_v4_Fixed(st, n) == 1

\* Mutant: the identifier of a deleted row is handed out again.
uuid_generate_v4_Recycled(st, n) ==
    LET free == {i \in 1..(n - 1) : \A c \in st : c.id # i}
    IN  IF free = {} THEN n ELSE CHOOSE i \in free : \A j \in free : i <= j

\* DEFAULT uuid_generate_v4(): a random version-4 UUID, taken as an
\* identifier never generated before.  n counts the identifiers generated so
\* far plus one; st is the table.
uuid_generate_v4(st, n) == n

\* POST /api/v1/companies with a body of bodies.  The generated identifier
\* is consumed only if the INSERT succeeds.
Post(bodies, faults) ==
    \E body \in bodies, fault \in faults :
        LET r == CreateCompany(store, body, uuid_generate_v4(store, nextId),
                               clock, fault)
        IN  /\ nextId <= MaxCreates
            /\ last' = r.ex
            /\ store' = r.store
            /\ nextId' = IF r.store # store THEN nextId + 1 ELSE nextId
            /\ UNCHANGED <<clock, inflight>>

ReqList ==
    /\ last = NoExchange
    /\ List(ListQueries, 0..2)

\* GET /api/v1/companies/{id}
ReqGet ==
    /\ last = NoExchange
    /\ \E idStr \in IdStrs, fault \in 0..1 :
        /\ last' = GetCompanyByID(store, idStr, fault)
        /\ UNCHANGED <<store, nextId, clock, inflight>>

ReqCreate ==
    /\ last = NoExchange
    /\ Post(CreateBodies, 0..1)

\* DELETE /api/v1/companies/{id}
ReqDelete ==
    /\ last = NoExchange
    /\ \E idStr \in IdStrs, fault \in 0..1 :
        LET r == DeleteCompany(store, idStr, fault)
        IN  /\ last' = r.ex
            /\ store' = r.store
            /\ UNCHANGED <<nextId, clock, inflight>>

\* The method and pattern pairs registered under /api/v1.
Routes ==
    {<<"GET", "/">>,
     <<"GET", "/companies">>,
     <<"POST", "/companies">>,
     <<"GET", "/companies/{id}">>,
     <<"DELETE", "/companies/{id}">>}

\* chi's routing of a request: to the handler registered for the method and
\* pattern; with the pattern registered for other methods only, the router
\* answers 405 itself, with no pattern 404.
Route(method, pattern) ==
    IF <<method, pattern>> \in Routes THEN "handler"
    ELSE IF \E r \in Routes : r[2] = pattern THEN "method not allowed"
    ELSE "not found"

\* PUT /api/v1/companies/{id}: no route is registered for it, so the router
\* answers and no handler runs.
ReqPut ==
    /\ last = NoExchange
    /\ Route("PUT", "/companies/{id}") # "handler"
    /\ \E idStr \in IdStrs :
        /\ last' = Exchange("put", [id |-> idStr, body |-> <<BaseReq>>],
                            IF Route("PUT", "/companies/{id}") = "method not allowed"
                            THEN 405 ELSE 404,
                            <<>>, <<>>, NotInvoked)
        /\ UNCHANGED <<store, nextId, clock, inflight>>

\* The response reaches the client.
Deliver ==
    /\ last # NoExchange
    /\ last' = NoExchange
    /\ UNCHANGED <<store, nextId, clock, inflight>>

\* CURRENT_TIMESTAMP advances between requests.
Tick ==
    /\ last = NoExchange
    /\ clock < MaxClock
    /\ clock' = clock + 1
    /\ UNCHANGED <<store, nextId, last, inflight>>

Next == ReqList \/ ReqGet \/ ReqCreate \/ ReqDelete \/ ReqPut \/ Deliver \/ Tick

\* The service answering one request after another.
Spec == Init /\ [][Next]_vars

\* ------------------------------------------------- validation of POST bodies
Runs == {"sp", "ascii", "mb"} \X {1, 255, 256}

\* company_name values of up to MaxRuns runs.
Names == UNION {[1..n -> Runs] : n \in 0..MaxRuns}

\* The decoded body with these field values.
Body(j, nm, ad, d, sh, sc) ==
    <<[jurisdiction |-> j, company_name |-> nm, company_address |-> ad,
       nature_of_business |-> <<>>, number_of_directors |-> d,
       number_of_shareholders |-> sh, sec_code |-> sc]>>

\* A table that is empty, or holds one row created earlier.
InitValidate ==
    /\ store \in {{}, {NewRow(BaseReq, 1, 0)}}
    /\ nextId = Cardinality(store) + 1
    /\ clock = 0
    /\ last = NoExchange
    /\ inflight = [s \in Slots |-> Idle]

ValidateCreate ==
    /\ last = NoExchange
    /\ \E j \in {"UK", "Caymens", "France", ""},
          nm \in Names,
          ad \in {<<>>, Txt("sp", 2), Txt("ascii", 9)},
          d \in {<<>>, <<0>>, <<1>>, <<100>>, <<101>>},
          sh \in {<<>>, <<0>>, <<1000>>, <<1001>>},
          sc \in {<<>>, <<Txt("ascii", 51)>>} :
            Post({Body(j, nm, ad, d, sh, sc)}, {0})

NextValidate == ValidateCreate

\* One POST /api/v1/companies, over every combination of the field values.
SpecValidate == InitValidate /\ [][NextValidate]_vars

\* -------------------------------------------------------- a paginating client
PageQueries == {<<"1">>, <<"2">>} \X {<<>>, <<"1">>, <<"2">>} \X {""}

PgCreate == Post({b \in CreateBodies : b # <<>> /\ validateCreateRequest(b[1]) = NoErr
                                        /\ SchemaOK(b[1])}, {0})

PgList == List(PageQueries, {0})

PgTick ==
    /\ clock < MaxClock
    /\ clock' = clock + 1
    /\ UNCHANGED <<store, nextId, last, inflight>>

NextPages == PgCreate \/ PgList \/ PgTick

\* Inserts, then list requests one directly after the other.
SpecPages == Init /\ [][NextPages]_vars

\* ------------------------------------------------------- create, then get
\* POST bodies with the optional fields set, one whose sec_code is 50
\* characters followed by a space, one per kind of rejection.
RoundTripBodies ==
    {<<BaseReq>>,
     <<[BaseReq EXCEPT !.jurisdiction = "Caymens",
                       !.nature_of_business = <<Txt("ascii", 7)>>,
                       !.number_of_directors = <<2>>,
                       !.number_of_shareholders = <<30>>,
                       !.sec_code = <<Txt("ascii", SecCodeColLen)>>]>>,
     <<[BaseReq EXCEPT !.sec_code = <<<<<<"ascii", SecCodeColLen>>, <<"sp", 1>>>>>>]>>,
     <<[BaseReq EXCEPT !.sec_code = <<Txt("ascii", SecCodeColLen + 1)>>]>>,
     <<[BaseReq EXCEPT !.company_name = <<>>]>>}

RtCreate == Post(RoundTripBodies, {0})

RtGet ==
    \E idStr \in IdStrs, fault \in 0..1 :
        /\ last' = GetCompanyByID(store, idStr, fault)
        /\ UNCHANGED <<store, nextId, clock, inflight>>

RtDelete ==
    \E idStr \in IdStrs :
        LET r == DeleteCompany(store, idStr, 0)
        IN  /\ last' = r.ex
            /\ store' = r.store
            /\ UNCHANGED <<nextId, clock, inflight>>

RtTick ==
    /\ clock < MaxClock
    /\ clock' = clock + 1
    /\ UNCHANGED <<store, nextId, last, inflight>>

NextRoundTrip == RtCreate \/ RtGet \/ RtDelete \/ RtTick

\* Creates, gets and deletes one directly after the other, so that a get can
\* be set against the create before it.
SpecRoundTrip == Init /\ [][NextRoundTrip]_vars

\* ------------------------------------------------------ concurrent requests
\* The identifiers and the list queries of the concurrent requests.
ConcurrentIds == {<<"uuid", 1>>}

ConcurrentQueries == {<<<<"1">>, <<"1">>, "">>}

\* A request that has arrived and is about to run the statement pc.
Pending(op, req, pc) ==
    [op |-> op, req |-> req, pc |-> pc, total |-> 0, ex |-> NoExchange]

\* The request r answered with the exchange ex.
Done(r, ex) == [r EXCEPT !.pc = "done", !.ex = ex]

\* A get, delete or list arrives on the next free slot.
CcArrive ==
    \E s \in Slots :
        /\ inflight[s] = Idle
        /\ \A t \in 1..(s - 1) : inflight[t] # Idle
        /\ \E r \in {Pending("delete", [id |-> i], "delete") : i \in ConcurrentIds}
                    \cup {Pending("get", [id |-> i], "select") : i \in ConcurrentIds}
                    \cup {Pending("list", [limit |-> q[1], offset |-> q[2],
                                           jurisdiction |-> q[3]], "count") :
                          q \in ConcurrentQueries} :
            inflight' = [inflight EXCEPT ![s] = r]
        /\ UNCHANGED <<store, nextId, clock, last>>

\* A create runs its one INSERT between the statements of the others: the
\* rows the gets and deletes aim at, and one more that they leave alone.
CcCreate ==
    /\ nextId <= Cardinality(ConcurrentIds) + 1
    /\ Post({<<BaseReq>>}, {0})

\* The DELETE statement of a delete in flight runs; the request is answered.
CcDelete ==
    \E s \in Slots :
        /\ inflight[s].op = "delete" /\ inflight[s].pc = "delete"
        /\ LET r == DeleteCompany(store, inflight[s].req.id, 0)
           IN  /\ store' = r.store
               /\ inflight' = [inflight EXCEPT ![s] = Done(@, r.ex)]
        /\ UNCHANGED <<nextId, clock, last>>

\* The SELECT of a get in flight runs; the request is answered.
CcGet ==
    \E s \in Slots :
        /\ inflight[s].op = "get" /\ inflight[s].pc = "select"
        /\ inflight' = [inflight EXCEPT ![s] =
                            Done(@, GetCompanyByID(store, @.req.id, 0))]
        /\ UNCHANGED <<store, nextId, clock, last>>

\* The COUNT query of a list in flight runs on the table as it is now.
CcCount ==
    \E s \in Slots :
        /\ inflight[s].op = "list" /\ inflight[s].pc = "count"
        /\ LET total == Cardinality(Matching(store,
                                 FilterOf(inflight[s].req.jurisdiction)))
           IN  inflight' = [inflight EXCEPT ![s].pc = "select",
                                            ![s].total = total]
        /\ UNCHANGED <<store, nextId, clock, last>>

\* The page query of a list in flight runs on the table as it is now; the
\* response carries its rows and the total counted earlier.
CcSelect ==
    \E s \in Slots :
        /\ inflight[s].op = "list" /\ inflight[s].pc = "select"
        /\ \E order \in DescOrders(Matching(store, FilterOf(inflight[s].req.jurisdiction))) :
            LET q == inflight[s].req
                ex == GetCompanies(store, q.limit, q.offset, q.jurisdiction, 0, order)
            IN  inflight' = [inflight EXCEPT ![s] =
                    Done(@, [ex EXCEPT !.body =
                                <<[ex.body[1] EXCEPT !.Total = inflight[s].total]>>])]
        /\ UNCHANGED <<store, nextId, clock, last>>

NextConcurrent == CcArrive \/ CcCreate \/ CcDelete \/ CcGet \/ CcCount \/ CcSelect

\* Requests served concurrently: their SQL statements interleave, each
\* statement being atomic.
SpecConcurrent == Init /\ [][NextConcurrent]_vars

\* =================================================================== claims
ListReq(ex) == ex.op = "list"

LimitGiven(ex) == ex.req.limit # <<>>

OffsetGiven(ex) == ex.req.offset # <<>>

\* Both limit and offset, where given, are integers.
ListParses(ex) ==
    /\ LimitGiven(ex) => Atoi(ex.req.limit).ok
    /\ OffsetGiven(ex) => Atoi(ex.req.offset).ok

\* limit is an integer outside [1,100] or offset is a negative integer.
ListOutOfRange(ex) ==
    \/ /\ LimitGiven(ex)
       /\ Atoi(ex.req.limit).ok
       /\ Atoi(ex.req.limit).val \notin 1..100
    \/ /\ OffsetGiven(ex)
       /\ Atoi(ex.req.offset).ok
       /\ Atoi(ex.req.offset).val < 0

\* C1 (as claimed; the code answers 500): a GET /companies whose limit is an
\* integer outside [1,100] or whose offset is a negative integer is answered
\* with 400, as one whose limit or offset is not an integer is.
C1_OutOfRangeIs400 ==
    (ListReq(last) /\ ListOutOfRange(last)) => last.status = 400

\* C7: ListCompanies called with a limit outside [1,100] or a negative
\* offset returns a validation error and calls no repository method.
C7_OutOfRangeNoStorageCall ==
    (ListReq(last) /\ ListParses(last) /\ ListOutOfRange(last)) =>
        /\ last.svcErr \in {<<"limit must be between 1 and 100">>,
                            <<"offset must be non-negative">>}
        /\ last.calls = <<>>
        /\ last.queries = <<>>

\* C7 witness: limit=101 reached the service and was refused.
C7_Witness ==
    /\ ListReq(last)
    /\ last.req.limit = <<"1", "0", "1">>
    /\ last.svcErr = <<"limit must be between 1 and 100">>
    /\ store # {}

\* C8: a successful list response carries the limit and offset passed to
\* the repository: the supplied value when given, else 20 and 0; the limit is
\* in [1,100] and the offset is >= 0.
C8_EffectiveLimitOffset ==
    (ListReq(last) /\ last.status = 200) =>
        LET resp == last.body[1]
            limit == IF LimitGiven(last) THEN Atoi(last.req.limit).val ELSE 20
            offset == IF OffsetGiven(last) THEN Atoi(last.req.offset).val ELSE 0
        IN  /\ resp.Limit = limit
            /\ resp.Offset = offset
            /\ resp.Limit \in 1..100
            /\ resp.Offset >= 0
            /\ Len(last.calls) = 1
            /\ last.calls[1][1] = "GetAll"
            /\ last.calls[1][2] = resp.Limit
            /\ last.calls[1][3] = resp.Offset

\* C8 witness: a successful list with no limit given and an offset given.
C8_Witness ==
    /\ ListReq(last)
    /\ last.status = 200
    /\ ~LimitGiven(last)
    /\ last.req.offset = <<"2">>
    /\ last.body[1].Limit = 20
    /\ last.body[1].Offset = 2

\* The repository reported a storage failure (sql.ErrNoRows from Delete is
\* the zero-rows signal, not a failure).
StorageFailed(ex) == ex.repoErr # NoErr /\ ex.repoErr # ErrNoRows

\* C3 (as claimed; the code answers a failed INSERT with 400 and the
\* storage error's text): a storage failure during list, get, create or
\* delete is answered with a 5xx whose msg holds no text of the storage error.
C3_StorageFailureOpaque5xx ==
    StorageFailed(last) =>
        /\ last.status >= 500
        /\ ~Contains(last.msg, last.repoErr)

\* The rows matching the filter of a list request.
Filtered(ex) ==
    IF ex.req.jurisdiction = "" THEN store
    ELSE {c \in store : c.jurisdiction = ex.req.jurisdiction}

\* The rows of S created later than c, and those created no earlier than c.
Newer(S, c) == {d \in S : d.date_created > c.date_created}

NotOlder(S, c) == {d \in S : d.date_created >= c.date_created}

\* page holds the rows at positions offset+1 .. offset+limit of S in an order
\* of descending date_created.
IsPageOf(page, S, limit, offset) ==
    /\ Len(page) = Min(limit, Max(0, Cardinality(S) - offset))
    /\ \A i \in DOMAIN page : page[i] \in S
    /\ \A i, j \in DOMAIN page : i # j => page[i] # page[j]
    /\ \A i \in DOMAIN page :
        /\ Cardinality(Newer(S, page[i])) <= offset + i - 1
        /\ Cardinality(NotOlder(S, page[i])) >= offset + i

\* C9: a list returns as total the number of stored rows matching the
\* filter, whatever limit and offset are, and as its page the rows at
\* positions offset .. offset+limit-1 of the matching rows in descending
\* date_created; an offset at or beyond total gives an empty page.
C9_TotalAndPage ==
    (ListReq(last) /\ last.status = 200) =>
        LET resp == last.body[1]
        IN  /\ resp.Total = Cardinality(Filtered(last))
            /\ IsPageOf(resp.Companies.elems, Filtered(last), resp.Limit, resp.Offset)
            /\ resp.Offset >= resp.Total => resp.Companies.elems = <<>>

\* C9 witness: a filtered page that starts past the first matching row and
\* leaves rows out, of a table that also holds rows of another jurisdiction.
C9_Witness ==
    /\ ListReq(last)
    /\ last.status = 200
    /\ last.req.jurisdiction = "UK"
    /\ last.body[1].Offset = 1
    /\ last.body[1].Total = 2
    /\ Len(last.body[1].Companies.elems) = 1
    /\ Cardinality(store) = 3

\* C9 witness of the empty page: an offset at total.
C9_WitnessBeyond ==
    /\ ListReq(last)
    /\ last.status = 200
    /\ last.body[1].Total = 2
    /\ last.body[1].Offset = 2
    /\ last.body[1].Companies.elems = <<>>

Ids(st) == {c.id : c \in st}

\* C10: deleting an identifier that names no stored row is answered 404
\* "Company not found", not 500: the repository's zero-rows signal is taken
\* as not-found by the service and by the handler, and the table is untouched.
C10_DeleteAbsentIs404 ==
    [][(/\ last'.op = "delete"
        /\ ParseUUID(last'.req.id).ok
        /\ ParseUUID(last'.req.id).id \notin Ids(store)
        /\ last'.repoErr # ErrConn)
       => /\ last'.repoErr = ErrNoRows
          /\ last'.svcErr = <<"company not found">>
          /\ last'.status = 404
          /\ last'.msg = <<"Company not found">>
          /\ store' = store]_vars

\* C10 witness: a delete of an identifier once stored and since deleted is
\* answered 404 while other rows are stored.
C10_Witness ==
    /\ last.op = "delete"
    /\ last.status = 404
    /\ last.req.id = <<"uuid", 1>>
    /\ nextId > 2
    /\ store # {}

\* A POST whose body decoded.
CreateReq(ex) == ex.op = "create" /\ ex.req # <<>>

NameRequiredMsg == <<"company name is required">>

NameLengthMsg == <<"company name cannot exceed 255 characters">>

AddressRequiredMsg == <<"company address is required">>

JurisdictionMsg == <<"invalid jurisdiction: must be one of [UK Singapore Caymens]">>

DirectorsMsg == <<"number of directors must be between 1 and 100">>

ShareholdersMsg == <<"number of shareholders must be between 1 and 1000">>

ValidationMsgs ==
    {NameRequiredMsg, NameLengthMsg, AddressRequiredMsg, JurisdictionMsg,
     DirectorsMsg, ShareholdersMsg}

\* req breaks a validation rule as the specification words them (the name's
\* length taken after trimming).
ViolatesARule(req) ==
    \/ TrimSpace(req.company_name) = <<>>
    \/ CharLen(TrimSpace(req.company_name)) > 255
    \/ TrimSpace(req.company_address) = <<>>
    \/ req.jurisdiction \notin {"UK", "Singapore", "Caymens"}
    \/ req.number_of_directors # <<>> /\ req.number_of_directors[1] \notin 1..100
    \/ req.number_of_shareholders # <<>> /\ req.number_of_shareholders[1] \notin 1..1000

\* C2: a create request that breaks a validation rule gets a validation
\* error (400 with the rule's message), the repository's Create is not
\* invoked, and the table is the same after the request as before it.
C2_InvalidCreateNotPersisted ==
    [][(CreateReq(last') /\ last.op = "none" /\ ViolatesARule(last'.req[1]))
       => /\ last'.svcErr \in ValidationMsgs
          /\ last'.status = 400
          /\ last'.msg = last'.svcErr
          /\ last'.calls = <<>>
          /\ last'.queries = <<>>
          /\ store' = store
          /\ nextId' = nextId]_vars

\* C2 witness: jurisdiction "France", every other field valid, refused while
\* the table holds a row.
C2_Witness ==
    /\ CreateReq(last)
    /\ last.req[1].jurisdiction = "France"
    /\ last.req[1].company_name = Txt("ascii", 255)
    /\ last.req[1].company_address = Txt("ascii", 9)
    /\ last.req[1].number_of_directors = <<1>>
    /\ last.req[1].number_of_shareholders = <<>>
    /\ last.req[1].sec_code = <<>>
    /\ last.status = 400
    /\ last.msg = JurisdictionMsg
    /\ store = {NewRow(BaseReq, 1, 0)}

\* The name passed both name rules.
NameAccepted(ex) == ex.svcErr \notin {NameRequiredMsg, NameLengthMsg}

Rules(req) ==
    <<[bad |-> TrimSpace(req.company_name) = <<>>, msg |-> NameRequiredMsg],
      [bad |-> ByteLen(req.company_name) > 255, msg |-> NameLengthMsg],
      [bad |-> TrimSpace(req.company_address) = <<>>, msg |-> AddressRequiredMsg],
      [bad |-> req.jurisdiction \notin {"UK", "Singapore", "Caymens"},
       msg |-> JurisdictionMsg],
      [bad |-> /\ req.number_of_directors # <<>>
               /\ req.number_of_directors[1] \notin 1..100,
       msg |-> DirectorsMsg],
      [bad |-> /\ req.number_of_shareholders # <<>>
               /\ req.number_of_shareholders[1] \notin 1..1000,
       msg |-> ShareholdersMsg]>>

\* The rules req breaks, by position in Rules.
Broken(req) == LET rules == Rules(req) IN {i \in DOMAIN rules : rules[i].bad}

\* C6: when a create request breaks several rules, the error is that of the
\* first broken rule in the order name required, name length, address
\* required, jurisdiction, directors, shareholders, and the 400 response's msg
\* is that rule's message.
C6_FirstBrokenRuleWins ==
    CreateReq(last) =>
        LET rules == Rules(last.req[1])
            broken == {i \in DOMAIN rules : rules[i].bad}
            first == CHOOSE i \in broken : \A j \in broken : i <= j
        IN  broken # {} =>
                /\ last.svcErr = rules[first].msg
                /\ last.status = 400
                /\ last.msg = rules[first].msg

\* C6 witness: address, jurisdiction, directors and shareholders all broken;
\* the address rule's message is returned.
C6_Witness ==
    /\ CreateReq(last)
    /\ Broken(last.req[1]) = {3, 4, 5, 6}
    /\ last.status = 400
    /\ last.msg = AddressRequiredMsg

\* Two list responses one directly after the other, of the same table with
\* no filter: the first of offset 0, the second of offset = limit, and more
\* rows stored than a page holds.
TwoPages ==
    /\ ListReq(last) /\ last.status = 200
    /\ ListReq(last') /\ last'.status = 200
    /\ store' = store
    /\ last.req.jurisdiction = "" /\ last'.req.jurisdiction = ""
    /\ last.body[1].Offset = 0
    /\ last'.body[1].Limit = last.body[1].Limit
    /\ last'.body[1].Offset = last.body[1].Limit
    /\ Cardinality(store) > last.body[1].Limit

NoDuplicates(rows) == \A i, j \in DOMAIN rows : i # j => rows[i] # rows[j]

Descending(rows) ==
    \A i, j \in DOMAIN rows : i < j => rows[i].date_created >= rows[j].date_created

\* C4 (as claimed; ORDER BY date_created DESC leaves the order of rows with
\* equal date_created open, so a row may come on both pages and another on
\* none): the two pages hold pairwise distinct rows, the first 2*limit rows of
\* the table with no gap, in descending order of creation time, whatever the
\* creation timestamps are.
C4_TwoPagesPartition ==
    [][TwoPages =>
        LET rows == last.body[1].Companies.elems \o last'.body[1].Companies.elems
            limit == last.body[1].Limit
        IN  /\ NoDuplicates(rows)
            /\ Len(rows) = Min(Cardinality(store), 2 * limit)
            /\ Cardinality(store) <= 2 * limit => Range(rows) = store
            /\ Descending(rows)]_vars

\* C11: an identifier generated earlier that names no row (its DELETE has
\* succeeded) names no row after any further request, and a get or delete of
\* it that reaches the table is answered 404.
C11_DeletedStaysGone ==
    [][\A id \in 1..MaxCreates :
        (id < nextId /\ id \notin Ids(store)) =>
            /\ id \notin Ids(store')
            /\ (/\ last'.op \in {"get", "delete"}
                /\ last'.req.id = <<"uuid", id>>
                /\ ~StorageFailed(last'))
               => last'.status = 404]_vars

\* C11 witness: identifiers 1 and 2 were deleted, a later row is stored, and
\* a get of identifier 1 is answered 404.
C11_Witness ==
    /\ last.op = "get"
    /\ last.req.id = <<"uuid", 1>>
    /\ last.status = 404
    /\ Ids(store) = {3}

\* A GET /companies/{id} whose identifier parsed.
GetReq(ex) == ex.op = "get" /\ ex.req.id[1] = "uuid"

\* C12: a get of a well-formed identifier is answered 404 "Company not found"
\* exactly when the query ran and found no row, 200 with the stored row of
\* that identifier when it found one, and 500 exactly when the query failed.
C12_GetOutcomes ==
    GetReq(last) =>
        LET id == last.req.id[2]
        IN  /\ last.queries = <<"select">>
            /\ last.status \in {200, 404, 500}
            /\ last.status = 500 <=> StorageFailed(last)
            /\ last.status = 404 <=> (~StorageFailed(last) /\ id \notin Ids(store))
            /\ last.status = 200 <=> (~StorageFailed(last) /\ id \in Ids(store))
            /\ last.status = 200 =>
                /\ last.body # <<>>
                /\ last.body[1] \in store
                /\ last.body[1].id = id
            /\ last.status = 404 => last.msg = <<"Company not found">>
            /\ last.status = 500 => last.msg = <<"Failed to retrieve company">>

\* C12 witness: with two rows stored, a get of a stored identifier is
\* answered with its row.
C12_Witness ==
    /\ GetReq(last)
    /\ last.status = 200
    /\ last.body[1].id = 2
    /\ Cardinality(store) = 2

\* C12 witness: a get of an identifier that names no row while other rows
\* are stored.
C12_WitnessNotFound ==
    /\ GetReq(last)
    /\ last.status = 404
    /\ store # {}

\* No two rows of st share an identifier.
UniqueIds(st) == \A a, b \in st : a.id = b.id => a = b

\* C13: a successful create returns an identifier that is none of those
\* generated before it (stored or since deleted), and adds its row to a
\* table in which no two rows share an identifier.
C13_FreshIdentifier ==
    [][(last.op = "none" /\ last'.op = "create" /\ last'.status = 201) =>
        LET c == last'.body[1]
        IN  /\ c.id \notin 1..(nextId - 1)
            /\ c.id \notin Ids(store)
            /\ store' = store \cup {c}
            /\ UniqueIds(store')]_vars

\* C13 witness: the third successful create, made after earlier rows were
\* deleted.
C13_Witness ==
    /\ last.op = "create"
    /\ last.status = 201
    /\ last.body[1].id = 3
    /\ Ids(store) = {2, 3}

\* The fields a create request carries are those of the row c.
EchoesRequest(c, req) ==
    /\ c.jurisdiction = req.jurisdiction
    /\ c.company_name = req.company_name
    /\ c.company_address = req.company_address
    /\ c.nature_of_business = req.nature_of_business
    /\ c.number_of_directors = req.number_of_directors
    /\ c.number_of_shareholders = req.number_of_shareholders
    /\ c.sec_code = req.sec_code

\* A successful create is followed at once by a get of the identifier it
\* returned, and the SELECT runs.
GetAfterCreate ==
    /\ last.op = "create" /\ last.status = 201
    /\ last'.op = "get"
    /\ last'.req.id = <<"uuid", last.body[1].id>>
    /\ ~StorageFailed(last')

\* C14 (as claimed; a sec_code of more than 50 characters whose excess is
\* spaces passes validation and is stored cut to 50): a successful create
\* returns the stored row, whose request fields equal the request's, absent
\* optional fields absent, with the generated identifier and both timestamps
\* set; a get of that identifier right after returns the same record.
C14_CreateEchoedAndReadBack ==
    [][/\ (last'.op = "create" /\ last'.status = 201 /\ store' # store) =>
            LET c == last'.body[1]
            IN  /\ EchoesRequest(c, last'.req[1])
                /\ c.id = uuid_generate_v4(store, nextId)
                /\ c.date_created = clock /\ c.date_updated = clock
                /\ c \in store'
       /\ GetAfterCreate =>
            /\ last'.status = 200
            /\ last'.body = last.body]_vars

\* C15: every stored row has a jurisdiction of the enumeration, a
\* number_of_directors absent or within 1..100 and a number_of_shareholders
\* absent or within 1..1000.
C15_StoredValuesInRange ==
    \A c \in store :
        /\ c.jurisdiction \in {"UK", "Singapore", "Caymens"}
        /\ c.number_of_directors = <<>> \/ c.number_of_directors[1] \in 1..100
        /\ c.number_of_shareholders = <<>> \/ c.number_of_shareholders[1] \in 1..1000

\* C15 witness: a create at the upper bound of both counts was stored.
C15_Witness ==
    /\ last.op = "create"
    /\ last.status = 201
    /\ last.body[1] \in store
    /\ last.body[1].number_of_directors = <<100>>
    /\ last.body[1].number_of_shareholders = <<1000>>

\* A GET or DELETE /companies/{id} whose path segment is no UUID.
MalformedId(ex) == ex.op \in {"get", "delete"} /\ ex.req.id[1] # "uuid"

\* The handler called the service: the service reports a repository call or
\* an error of its own.
ServiceInvoked(ex) == ex.calls # <<>> \/ ex.svcErr # NoErr

\* C16: a get or delete with a malformed identifier, and a list with a
\* limit or offset that is no integer, is answered 400 with no service call,
\* no query, and the table as it was.
C16_MalformedIs400 ==
    [][(/\ last.op = "none"
        /\ \/ MalformedId(last')
           \/ ListReq(last') /\ ~ListParses(last'))
       => /\ last'.status = 400
          /\ ~ServiceInvoked(last')
          /\ last'.queries = <<>>
          /\ store' = store]_vars

\* C16 witness: a delete with a malformed identifier answered 400 while rows
\* are stored.
C16_Witness ==
    /\ MalformedId(last)
    /\ last.op = "delete"
    /\ last.status = 400
    /\ last.msg = <<"Invalid company ID format">>
    /\ Cardinality(store) = 2

\* C16 witness: a list whose offset is no integer answered 400.
C16_WitnessList ==
    /\ ListReq(last)
    /\ ~ListParses(last)
    /\ last.status = 400
    /\ last.msg = <<"Invalid offset parameter">>
    /\ store # {}

\* C17 (as claimed; GetAll declares var companies []api.Company and appends
\* per row, so with no row the slice stays nil and the response carries
\* null for companies): a list that succeeds while no row matches its filter
\* returns a list of length 0 that is not nil, with total 0.
C17_EmptyListNotNull ==
    (ListReq(last) /\ last.status = 200 /\ Filtered(last) = {}) =>
        /\ last.body[1].Total = 0
        /\ last.body[1].Companies.elems = <<>>
        /\ ~last.body[1].Companies.isNil

\* A list with a jurisdiction filter whose limit and offset pass the handler
\* and the range checks.
FilteredList(ex) ==
    /\ ListReq(ex)
    /\ ex.req.jurisdiction # ""
    /\ ListParses(ex)
    /\ ~ListOutOfRange(ex)

\* C18: a jurisdiction filter is handed to the repository as given and is
\* never a reason to reject; unless storage fails the answer is 200 with
\* only rows of that jurisdiction and their count as total, which for a
\* filter outside the enumeration is no row and total 0.
C18_FilterPassedThrough ==
    FilteredList(last) =>
        /\ Len(last.calls) = 1
        /\ last.calls[1][1] = "GetAll"
        /\ last.calls[1][4] = <<last.req.jurisdiction>>
        /\ last.status # 400
        /\ ~StorageFailed(last) =>
            /\ last.status = 200
            /\ \A c \in Range(last.body[1].Companies.elems) :
                c.jurisdiction = last.req.jurisdiction
            /\ last.body[1].Total = Cardinality(Filtered(last))
            /\ last.req.jurisdiction \notin {"UK", "Singapore", "Caymens"} =>
                /\ last.body[1].Companies.elems = <<>>
                /\ last.body[1].Total = 0

\* C18 witness: a filter outside the enumeration on a table with rows is
\* answered 200 with total 0.
C18_Witness ==
    /\ FilteredList(last)
    /\ last.req.jurisdiction = "France"
    /\ last.status = 200
    /\ last.body[1].Total = 0
    /\ Cardinality(store) = 2

\* C18 witness: a filter of the enumeration returns the one matching row of
\* two stored.
C18_WitnessAllowed ==
    /\ FilteredList(last)
    /\ last.req.jurisdiction = "UK"
    /\ last.status = 200
    /\ Len(last.body[1].Companies.elems) = 1
    /\ last.body[1].Total = 1
    /\ Cardinality(store) = 2

\* C19: a step changes the table only by a successful create, which adds
\* one row, or a successful delete, which removes one; list, get and every
\* failed create or delete leave it as it was, and a row that stays keeps
\* every field, identifier and timestamps included.
C19_OnlyInsertAndRemove ==
    [][/\ store' # store =>
            \/ /\ last'.op = "create" /\ last'.status = 201
               /\ \E r \in store' \ store : store' = store \cup {r}
            \/ /\ last'.op = "delete" /\ last'.status = 204
               /\ \E r \in store \ store' : store' = store \ {r}
       /\ (last.op = "none" /\ last'.op \in {"list", "get"}) => store' = store
       /\ (last.op = "none" /\ last'.op = "create" /\ last'.status # 201) =>
            store' = store
       /\ (last.op = "none" /\ last'.op = "delete" /\ last'.status # 204) =>
            store' = store
       /\ \A r \in store' : r.id \in Ids(store) => r \in store]_vars

\* C19 witness: a successful delete took one row of three.
C19_Witness ==
    /\ last.op = "delete"
    /\ last.status = 204
    /\ Cardinality(store) = 2
    /\ nextId = 4

\* C19 witness: a create that failed in the INSERT left two rows stored.
C19_WitnessFailedCreate ==
    /\ last.op = "create"
    /\ last.status = 400
    /\ last.queries = <<"insert">>
    /\ Cardinality(store) = 2

\* C20 (as claimed; main registers GET, POST and DELETE routes only, and
\* neither the service nor the repository has an update operation): a PUT
\* on the identifier of a stored row reaches a handler, which answers 200
\* and leaves the row of that identifier carrying the request's fields.
C20_PutUpdates ==
    [][(/\ last.op = "none"
        /\ last'.op = "put"
        /\ last'.req.id[1] = "uuid"
        /\ last'.req.id[2] \in Ids(store))
       => /\ last'.status = 200
          /\ ServiceInvoked(last')
          /\ \E c \in store' :
                /\ c.id = last'.req.id[2]
                /\ EchoesRequest(c, last'.req.body[1])]_vars

\* C21 (as claimed; GetAll runs a COUNT query and then the page query): an
\* operation that reaches the repository makes one repository call, which
\* issues one query.
C21_OneQueryPerOperation ==
    (last.op \in {"list", "get", "create", "delete"} /\ last.calls # <<>>) =>
        /\ Len(last.calls) = 1
        /\ Len(last.queries) = 1

\* The slots of fl holding an answered delete of identifier id, and those
\* of them answered 204.
DeletesDone(fl, id) ==
    {s \in Slots : /\ fl[s].op = "delete" /\ fl[s].pc = "done"
                   /\ fl[s].req.id = <<"uuid", id>>}

DeletesSucceeded(fl, id) == {s \in DeletesDone(fl, id) : fl[s].ex.status = 204}

\* C22: with deletes of one identifier, gets, lists and creates interleaved
\* statement by statement, every delete is answered 204 or 404; an
\* identifier has one delete answered 204 if its row was created and is
\* gone, and none otherwise; a delete whose statement finds the row removes
\* that row and no other, one that does not find it removes nothing.
C22_OneDeleteSucceeds ==
    [][/\ \A id \in 1..MaxCreates :
            /\ \A s \in DeletesDone(inflight', id) :
                inflight'[s].ex.status \in {204, 404}
            /\ Cardinality(DeletesSucceeded(inflight', id)) =
                IF id < nextId' /\ id \notin Ids(store') THEN 1 ELSE 0
       /\ \A s \in Slots :
            (inflight[s].pc = "delete" /\ inflight'[s].pc = "done") =>
                LET id == inflight[s].req.id[2]
                IN  IF id \in Ids(store)
                    THEN /\ inflight'[s].ex.status = 204
                         /\ store' = {c \in store : c.id # id}
                         /\ Cardinality(store') = Cardinality(store) - 1
                    ELSE /\ inflight'[s].ex.status = 404
                         /\ store' = store]_vars

\* C22 witness: two deletes of identifier 1 and a list were in flight; one
\* delete was answered 204, the other 404, and the row of identifier 2 is
\* still stored.
C22_Witness ==
    /\ \E s, t \in Slots :
        /\ s \in DeletesSucceeded(inflight, 1)
        /\ t \in DeletesDone(inflight, 1)
        /\ inflight[t].ex.status = 404
    /\ \E s \in Slots : inflight[s].op = "list" /\ inflight[s].pc = "done"
    /\ Ids(store) = {2}

\* C22 witness: two deletes of the stored identifier 1 are in flight at
\* once, neither having run its statement.
C22_WitnessInFlight ==
    /\ \E s, t \in Slots :
        /\ s # t
        /\ inflight[s].op = "delete" /\ inflight[s].pc = "delete"
        /\ inflight[t].op = "delete" /\ inflight[t].pc = "delete"
        /\ inflight[s].req.id = <<"uuid", 1>>
        /\ inflight[t].req.id = <<"uuid", 1>>
    /\ Ids(store) = {1, 2}

\* C23 (as claimed; GetAll counts and selects in two statements on the pool,
\* outside a transaction, so a create or delete may run between them): every
\* list answered 200 returns min(limit, max(0, total - offset)) rows.
C23_TotalMatchesPage ==
    \A s \in Slots :
        (/\ inflight[s].op = "list" /\ inflight[s].pc = "done"
         /\ inflight[s].ex.status = 200) =>
            LET r == inflight[s].ex.body[1]
            IN  Len(r.Companies.elems) = Min(r.Limit, Max(0, r.Total - r.Offset))

\* C24 (as claimed; validateCreateRequest has no rule for sec_code, whose
\* column is VARCHAR(50)): a create request that passes validation meets
\* every column constraint, and its INSERT stores a row and is answered 201.
C24_ValidatedCreatePersists ==
    (CreateReq(last) /\ validateCreateRequest(last.req[1]) = NoErr) =>
        /\ SchemaOK(last.req[1])
        /\ last.repoErr = NoErr
        /\ last.status = 201
        /\ last.body[1] \in store

====
